---------------------------- MODULE Spec2Model ----------------------------
(***************************************************************************)
(* Portfolio tracker: the positions table (SQLite, shared by the CLI       *)
(* python_portfolio_tracker.py and the dashboard streamlit_app.py), the    *)
(* write paths (CLI add / delete, dashboard add_trade, CSV import) and the *)
(* two valuation computations (PortfolioAnalyzer.summary and the           *)
(* dashboard's main page).                                                 *)
(*                                                                         *)
(* Conventions.                                                            *)
(*  - A symbol is a sequence of character codes (65 = "A", 97 = "a",       *)
(*    32 = " "), so that str.upper and str.strip are computed.             *)
(*  - A stored REAL that the inputs below can produce is integer valued    *)
(*    and is kept as an integer (float(x) keeps the value).  A value a     *)
(*    pandas column holds is a Float record: a reduced fraction, NaN, or   *)
(*    +/-inf, with numpy's rules for division by zero.                     *)
(*  - One command runs at a time: out is the output of the command that    *)
(*    just ran; Exit ends it (the CLI process returns, a block of the      *)
(*    dashboard script is done).  A run of the dashboard script is its     *)
(*    blocks in order: the "Add trade" form, the file uploader, the main   *)
(*    page; each block is an action.                                       *)
(*  - Sums and quotients are exact; the rounding of float64 is not         *)
(*    modelled.                                                            *)
(***************************************************************************)
EXTENDS Integers, Sequences, FiniteSets

VARIABLES
    positions,  \* the positions table, a sequence of rows in rowid order
    seq,        \* sqlite_sequence.seq of the table (AUTOINCREMENT)
    deleted,    \* history: the ids of the rows deleted so far
    out         \* the command that just ran and what it produced

vars == <<positions, seq, deleted, out>>

---------------------------------------------------------------------------
(* Bounds and input samples *)

MaxRows == 2
MaxId == 3
MaxCsvRows == 1
MaxPrice == 2

SymA == <<65>>
SymLowerA == <<97>>
SymB == <<66>>
Symbols == {SymA, SymLowerA, SymB}
\* what can be typed in the dashboard's symbol box: also "", " " and " a"
TypedSymbols == Symbols \cup {<<>>, <<32>>, <<32, 97>>}
Shares == {-1, 0, 1}
Costs == {0, 1}
TradeDate == "2024-01-02"
Prices == 1..MaxPrice

---------------------------------------------------------------------------
(* Strings *)

UpperChar(c) == IF c >= 97 /\ c <= 122 THEN c - 32 ELSE c

\* str.upper()
Upper(s) == [i \in 1..Len(s) |-> UpperChar(s[i])]

IsSpace(c) == c = 32 \/ (c >= 9 /\ c <= 13)

RECURSIVE LStrip(_)
LStrip(s) == IF s # <<>> /\ IsSpace(Head(s)) THEN LStrip(Tail(s)) ELSE s

RECURSIVE RStrip(_)
RStrip(s) ==
    IF s # <<>> /\ IsSpace(s[Len(s)]) THEN RStrip(SubSeq(s, 1, Len(s) - 1)) ELSE s

\* str.strip()
Strip(s) == RStrip(LStrip(s))

\* s < t for Python strings (by code point, a proper prefix first)
RECURSIVE StrLess(_, _)
StrLess(s, t) ==
    IF t = <<>> THEN FALSE
    ELSE IF s = <<>> THEN TRUE
    ELSE IF Head(s) # Head(t) THEN Head(s) < Head(t)
    ELSE StrLess(Tail(s), Tail(t))

---------------------------------------------------------------------------
(* Floats of a pandas column *)

Abs(x) == IF x < 0 THEN -x ELSE x

RECURSIVE GCD(_, _)
GCD(a, b) == IF b = 0 THEN a ELSE GCD(b, a % b)

NaN == [k |-> "nan", n |-> 0, d |-> 1]
Inf(sign) == [k |-> "inf", n |-> sign, d |-> 1]

\* the fraction n/d (d # 0), reduced, its sign on the numerator
Frac(n, d) ==
    LET g == GCD(Abs(n), Abs(d))
        sg == IF d < 0 THEN -1 ELSE 1
    IN  [k |-> "num", n |-> (sg * n) \div g, d |-> Abs(d) \div g]

F(i) == [k |-> "num", n |-> i, d |-> 1]

Sign(x) == IF x.n > 0 THEN 1 ELSE IF x.n < 0 THEN -1 ELSE 0

FNeg(x) == IF x.k = "nan" THEN NaN ELSE [x EXCEPT !.n = -x.n]

FAdd(x, y) ==
    IF x.k = "nan" \/ y.k = "nan" THEN NaN
    ELSE IF x.k = "inf" /\ y.k = "inf" THEN (IF x.n = y.n THEN x ELSE NaN)
    ELSE IF x.k = "inf" THEN x
    ELSE IF y.k = "inf" THEN y
    ELSE Frac(x.n * y.d + y.n * x.d, x.d * y.d)

FSub(x, y) == FAdd(x, FNeg(y))

FMul(x, y) ==
    IF x.k = "nan" \/ y.k = "nan" THEN NaN
    ELSE IF x.k = "inf" \/ y.k = "inf"
         THEN (IF Sign(x) * Sign(y) = 0 THEN NaN ELSE Inf(Sign(x) * Sign(y)))
    ELSE Frac(x.n * y.n, x.d * y.d)

\* Series / Series and Series / scalar: no ZeroDivisionError, x/0 is +/-inf
\* and 0/0 is NaN
FDiv(x, y) ==
    IF x.k = "nan" \/ y.k = "nan" THEN NaN
    ELSE IF y.k = "inf" THEN (IF x.k = "inf" THEN NaN ELSE F(0))
    ELSE IF y.n = 0 THEN (IF Sign(x) = 0 THEN NaN ELSE Inf(Sign(x)))
    ELSE IF x.k = "inf" THEN Inf(Sign(x) * Sign(y))
    ELSE Frac(x.n * y.d, x.d * y.n)

\* Series.fillna(0): NaN becomes 0, inf stays
FillNa0(x) == IF x.k = "nan" THEN F(0) ELSE x

\* Series.sum(): NaN is skipped, the empty sum is 0
RECURSIVE FSum(_)
FSum(xs) ==
    IF xs = <<>> THEN F(0)
    ELSE IF Head(xs).k = "nan" THEN FSum(Tail(xs))
    ELSE FAdd(Head(xs), FSum(Tail(xs)))

\* truth value of a numpy float: 0.0 is false, NaN and inf are true
Truthy(x) == ~(x.k = "num" /\ x.n = 0)

---------------------------------------------------------------------------
(* Sequences *)

Column(rows, c) == [i \in 1..Len(rows) |-> rows[i][c]]

Range(s) == {s[i] : i \in 1..Len(s)}

\* Series.unique(): the distinct values in order of first appearance
RECURSIVE Unique(_)
Unique(s) ==
    IF s = <<>> THEN <<>>
    ELSE LET init == Unique(SubSeq(s, 1, Len(s) - 1))
             last == s[Len(s)]
         IN  IF last \in Range(init) THEN init ELSE Append(init, last)

---------------------------------------------------------------------------
(* The positions table: CREATE TABLE positions (id INTEGER PRIMARY KEY      *)
(* AUTOINCREMENT, symbol TEXT NOT NULL, shares REAL NOT NULL, ...)          *)

\* A cell that may be NULL: <<>> is NULL, <<v>> holds v.
IsNull(cell) == cell = <<>>

Ids(tbl) == {tbl[i].id : i \in 1..Len(tbl)}

MaxOf(S) == IF S = {} THEN 0 ELSE CHOOSE x \in S : \A y \in S : y <= x

\* the table with row r put at its place in rowid order
InsertSorted(tbl, r) ==
    LET before == SelectSeq(tbl, LAMBDA x : x.id < r.id)
        after == SelectSeq(tbl, LAMBDA x : x.id > r.id)
    IN  before \o <<r>> \o after

\* INSERT INTO positions of one row of values v (v.id and v.shares are cells).
\* NOT NULL and the primary key are enforced; a NULL id is assigned by
\* AUTOINCREMENT: one more than the largest rowid the table ever held.
sql_insert(db, v) ==
    IF IsNull(v.shares) THEN [ok |-> FALSE, db |-> db]
    ELSE IF ~IsNull(v.id) /\ v.id[1] \in Ids(db.positions) THEN [ok |-> FALSE, db |-> db]
    ELSE LET rowid == IF IsNull(v.id)
                      THEN MaxOf(Ids(db.positions) \cup {db.seq}) + 1
                      ELSE v.id[1]
             r == [id |-> rowid, symbol |-> v.symbol, shares |-> v.shares[1],
                   cost_per_share |-> v.cost_per_share,
                   trade_date |-> v.trade_date, note |-> v.note]
         IN  [ok |-> TRUE,
              db |-> [positions |-> InsertSorted(db.positions, r),
                      seq |-> MaxOf({db.seq, rowid})]]

\* PortfolioDB.add_position: the symbol is uppercased, nothing else is looked at
add_position(db, symbol, shares, cost_per_share, trade_date, note) ==
    sql_insert(db, [id |-> <<>>, symbol |-> Upper(symbol), shares |-> <<shares>>,
                    cost_per_share |-> cost_per_share, trade_date |-> trade_date,
                    note |-> note]).db

\* delete_position with WHERE id <= ?
delete_position_upto(db, position_id) ==
    [db EXCEPT !.positions = SelectSeq(db.positions, LAMBDA r : r.id > position_id)]

\* PortfolioDB.delete_position: DELETE FROM positions WHERE id = ?
delete_position(db, position_id) ==
    [db EXCEPT !.positions = SelectSeq(db.positions, LAMBDA r : r.id # position_id)]

\* PortfolioDB.list_positions: SELECT * FROM positions
list_positions(db) == db.positions

\* add_trade of the dashboard
add_trade(db, symbol, shares, price, date, note) ==
    sql_insert(db, [id |-> <<>>, symbol |-> Upper(symbol), shares |-> <<shares>>,
                    cost_per_share |-> price, trade_date |-> date,
                    note |-> note]).db

\* The rows of a DataFrame appended one by one inside one transaction.
RECURSIVE insert_all(_, _)
insert_all(db, vs) ==
    IF vs = <<>> THEN [ok |-> TRUE, db |-> db]
    ELSE LET one == sql_insert(db, Head(vs))
         IN  IF one.ok THEN insert_all(one.db, Tail(vs)) ELSE one

\* import_csv_to_db: df.to_sql("positions", if_exists="append").  The frame's
\* columns go to the table as they are (an id column too); a failing row
\* rolls the whole append back and raises.
import_csv_to_db(db, csv) ==
    LET vs == [i \in 1..Len(csv.rows) |->
                 [id |-> IF csv.ids = <<>> THEN <<>> ELSE <<csv.ids[i]>>,
                  symbol |-> csv.rows[i].symbol,
                  shares |-> csv.rows[i].shares,
                  cost_per_share |-> csv.rows[i].cost_per_share,
                  trade_date |-> csv.rows[i].trade_date,
                  note |-> csv.rows[i].note]]
        res == insert_all(db, vs)
    IN  IF res.ok THEN res ELSE [ok |-> FALSE, db |-> db]

---------------------------------------------------------------------------
(* The quote source.  net[sym] is what yfinance does for sym during one     *)
(* command: history() raises, returns an empty frame, or returns closes     *)
(* whose last is close; and, for the dashboard's fallback, what             *)
(* info.get('regularMarketPrice') does.                                     *)

Outcome(hist, close, info, reg) ==
    [hist |-> hist, close |-> close, info |-> info, reg |-> reg]

\* the outcomes the CLI tells apart
CliOutcomes ==
    {Outcome("raise", 0, "unused", 0), Outcome("empty", 0, "unused", 0)}
        \cup {Outcome("close", p, "unused", 0) : p \in Prices}

\* the outcomes the dashboard tells apart
DashOutcomes ==
    {Outcome("raise", 0, "unused", 0)}
        \cup {Outcome("close", p, "unused", 0) : p \in Prices}
        \cup {Outcome("empty", 0, "raise", 0), Outcome("empty", 0, "none", 0)}
        \cup {Outcome("empty", 0, "price", r) : r \in Prices}

\* the symbols a command asks quotes for
HeldSymbols(tbl) == {Upper(tbl[i].symbol) : i \in 1..Len(tbl)}

(* A dict, in insertion order: a sequence of <<key, value>>. *)
DictKeys(d) == {d[i][1] : i \in 1..Len(d)}

\* d[k] = v
DictSet(d, k, v) ==
    IF k \in DictKeys(d)
    THEN [i \in 1..Len(d) |-> IF d[i][1] = k THEN <<k, v>> ELSE d[i]]
    ELSE Append(d, <<k, v>>)

\* Series.map(d): the value at k, NaN for a key that is not there
DictMap(d, k) ==
    IF k \in DictKeys(d) THEN (CHOOSE e \in Range(d) : e[1] = k)[2] ELSE NaN

---------------------------------------------------------------------------
(* The CLI's valuation: PortfolioAnalyzer *)

\* PortfolioAnalyzer.__init__ and read_positions_df: the symbols uppercased
UpperSymbols(tbl) ==
    [i \in 1..Len(tbl) |-> [tbl[i] EXCEPT !.symbol = Upper(@)]]

\* the loop of fetch_prices over the symbols still to fetch
RECURSIVE fetch_prices_loop(_, _, _)
fetch_prices_loop(symbols, net, data) ==
    IF symbols = <<>> THEN data
    ELSE LET sym == Head(symbols)
             price == IF net[sym].hist = "close" THEN F(net[sym].close) ELSE F(0)
         IN  fetch_prices_loop(Tail(symbols), net, DictSet(data, sym, price))

\* fetch_prices with the except branch leaving data[sym] unset
RECURSIVE fetch_prices_loop_unset(_, _, _)
fetch_prices_loop_unset(symbols, net, data) ==
    IF symbols = <<>> THEN data
    ELSE LET sym == Head(symbols)
         IN  fetch_prices_loop_unset(Tail(symbols), net,
                 IF net[sym].hist = "raise" THEN data
                 ELSE DictSet(data, sym,
                              IF net[sym].hist = "close" THEN F(net[sym].close)
                              ELSE F(0)))

PriceFrame(data) ==
    [i \in 1..Len(data) |-> [symbol |-> data[i][1], current_price |-> data[i][2]]]

fetch_prices_unset(pos, net) ==
    PriceFrame(fetch_prices_loop_unset(Unique(Column(pos, "symbol")), net, <<>>))

\* fetch_prices returning one price row per position instead of per symbol
fetch_prices_per_row(pos, net) ==
    [i \in 1..Len(pos) |->
        [symbol |-> pos[i].symbol,
         current_price |-> IF net[pos[i].symbol].hist = "close"
                           THEN F(net[pos[i].symbol].close) ELSE F(0)]]

\* PortfolioAnalyzer.fetch_prices: the frame of (symbol, current_price)
fetch_prices(pos, net) ==
    IF pos = <<>> THEN <<>>
    ELSE PriceFrame(fetch_prices_loop(Unique(Column(pos, "symbol")), net, <<>>))

\* a position row with its price and the columns computed from it
Valued(r, current_price) ==
    LET current_value == FMul(F(r.shares), current_price)
        cost_basis == FMul(F(r.shares), F(r.cost_per_share))
        pnl_abs == FSub(current_value, cost_basis)
    IN  [id |-> r.id, symbol |-> r.symbol, shares |-> r.shares,
         cost_per_share |-> r.cost_per_share, trade_date |-> r.trade_date,
         note |-> r.note, current_price |-> current_price,
         current_value |-> current_value, cost_basis |-> cost_basis,
         pnl_abs |-> pnl_abs, pnl_pct |-> FDiv(pnl_abs, cost_basis)]

\* positions.merge(prices, on='symbol', how='left') and the computed columns:
\* the left rows in their order, each once per matching price row, with a
\* NaN price when none matches
RECURSIVE merge_left(_, _)
merge_left(left, prices) ==
    IF left = <<>> THEN <<>>
    ELSE LET r == Head(left)
             hits == SelectSeq(prices, LAMBDA q : q.symbol = r.symbol)
             rows == IF hits = <<>> THEN <<Valued(r, NaN)>>
                     ELSE [j \in 1..Len(hits) |-> Valued(r, hits[j].current_price)]
         IN  rows \o merge_left(Tail(left), prices)

\* the body of summary after its guard
summary_frame(pos, prices) ==
    LET df == merge_left(pos, prices)
        total_value == FSum(Column(df, "current_value"))
        total_cost == FSum(Column(df, "cost_basis"))
    IN  [positions |-> df, total_value |-> total_value, total_cost |-> total_cost,
         total_pnl |-> FSub(total_value, total_cost)]

EmptyDict == <<>>

\* summary without its guard on an empty table
summary_unguarded(pos, net) == summary_frame(pos, fetch_prices(pos, net))

\* PortfolioAnalyzer.summary
summary(pos, net) ==
    IF pos = <<>> THEN EmptyDict
    ELSE summary_frame(pos, fetch_prices(pos, net))

---------------------------------------------------------------------------
(* The dashboard's valuation: the main page of streamlit_app.py *)

\* fetch_current_prices: the dict symbol -> price
RECURSIVE fetch_current_prices(_, _, _)
fetch_current_prices(symbols, net, prices) ==
    IF symbols = <<>> THEN prices
    ELSE LET s == Head(symbols)
             price == IF net[s].hist = "close" THEN F(net[s].close)
                      ELSE IF net[s].hist = "empty" /\ net[s].info = "price"
                           THEN F(net[s].reg)
                      ELSE F(0)
         IN  fetch_current_prices(Tail(symbols), net, DictSet(prices, s, price))

\* the trades with their metrics; pnl_pct has its NaN filled with 0
Trades(pos, prices) ==
    [i \in 1..Len(pos) |->
        LET v == Valued(pos[i], DictMap(prices, pos[i].symbol))
        IN  [v EXCEPT !.pnl_pct = FillNa0(@)]]

\* the keys of a groupby, sorted
RECURSIVE SortedKeys(_)
SortedKeys(S) ==
    IF S = {} THEN <<>>
    ELSE LET least == CHOOSE k \in S : \A o \in S \ {k} : StrLess(k, o)
         IN  <<least>> \o SortedKeys(S \ {least})

\* a groupby that keeps the first row of each symbol instead of summing
GroupFirst(df) ==
    LET keys == SortedKeys(Range(Column(df, "symbol")))
    IN  [g \in 1..Len(keys) |->
            LET rows == SelectSeq(df, LAMBDA r : r.symbol = keys[g])
            IN  [symbol |-> keys[g], shares |-> F(rows[1].shares),
                 cost_basis |-> rows[1].cost_basis,
                 current_value |-> rows[1].current_value,
                 pnl_abs |-> rows[1].pnl_abs]]

\* df.groupby('symbol').agg(sum of shares, cost_basis, current_value, pnl_abs)
GroupBySymbol(df) ==
    LET keys == SortedKeys(Range(Column(df, "symbol")))
    IN  [g \in 1..Len(keys) |->
            LET rows == SelectSeq(df, LAMBDA r : r.symbol = keys[g])
            IN  [symbol |-> keys[g],
                 shares |-> FSum([i \in 1..Len(rows) |-> F(rows[i].shares)]),
                 cost_basis |-> FSum(Column(rows, "cost_basis")),
                 current_value |-> FSum(Column(rows, "current_value")),
                 pnl_abs |-> FSum(Column(rows, "pnl_abs"))]]

\* the main page: the empty-table branch stops the script, otherwise the
\* trades, the per-symbol rows and the totals
main_page(pos, net) ==
    IF pos = <<>> THEN [stopped |-> TRUE, info |-> "No positions yet"]
    ELSE
    LET symbols == Unique(Column(pos, "symbol"))
        prices == fetch_current_prices(symbols, net, <<>>)
        df == Trades(pos, prices)
        grouped == GroupBySymbol(df)
        total_value == FSum(Column(grouped, "current_value"))
        total_cost == FSum(Column(grouped, "cost_basis"))
        divisor == IF Truthy(total_value) THEN total_value ELSE F(1)
        agg == [g \in 1..Len(grouped) |->
                  [symbol |-> grouped[g].symbol, shares |-> grouped[g].shares,
                   cost_basis |-> grouped[g].cost_basis,
                   current_value |-> grouped[g].current_value,
                   pnl_abs |-> grouped[g].pnl_abs,
                   pnl_pct |-> FillNa0(FDiv(grouped[g].pnl_abs, grouped[g].cost_basis)),
                   allocation_pct |-> FDiv(grouped[g].current_value, divisor)]]
    IN  [stopped |-> FALSE, prices |-> prices, df |-> df, agg |-> agg,
         total_value |-> total_value, total_cost |-> total_cost,
         total_pnl |-> FSub(total_value, total_cost)]

---------------------------------------------------------------------------
(* Commands on the table *)

Idle == [op |-> "idle"]

DB == [positions |-> positions, seq |-> seq]

\* what a write asked to store: the symbol as given, the shares cell, the cost
Asked(symbol, shares, cost) ==
    [symbol |-> symbol, shares |-> shares, cost_per_share |-> cost]

SetDB(db) ==
    /\ positions' = db.positions
    /\ seq' = db.seq
    /\ deleted' = deleted \cup (Ids(positions) \ Ids(db.positions))

CsvRows ==
    [symbol : Symbols, shares : {<<>>, <<-1>>, <<1>>}, cost_per_share : {1},
     trade_date : {TradeDate}, note : {""}]

\* an uploaded file of n rows: its rows, and its id column when it has one
Csvs(n) ==
    {[ids |-> p[1], rows |-> p[2]] :
        p \in ({<<>>} \cup [1..n -> 1..MaxId]) \X [1..n -> CsvRows]}

CsvsNoId(n) == {c \in Csvs(n) : c.ids = <<>>}

\* how many rows the bounds leave room for
Room == IF MaxRows - Len(positions) < MaxId - seq
        THEN MaxRows - Len(positions) ELSE MaxId - seq

\* main(): args.cmd == 'add'
AddPosition ==
    /\ out = Idle
    /\ Len(positions) < MaxRows
    /\ seq < MaxId
    /\ \E symbol \in Symbols, shares \in Shares, price \in Costs :
          /\ SetDB(add_position(DB, symbol, shares, price, TradeDate, ""))
          /\ out' = [op |-> "add", asked |-> <<Asked(symbol, <<shares>>, price)>>,
                     rejected |-> FALSE, printed |-> "Position added."]

\* main(): args.cmd == 'delete'
DeletePosition ==
    /\ out = Idle
    /\ \E id \in 1..MaxId :
          /\ SetDB(delete_position(DB, id))
          /\ out' = [op |-> "delete", id |-> id, printed |-> "Deleted position."]

\* the sidebar's "Add trade" button: number_input keeps shares and price >= 0,
\* a blank symbol is refused
AddTrade ==
    /\ out = Idle
    /\ Len(positions) < MaxRows
    /\ seq < MaxId
    /\ \E c_symbol \in TypedSymbols, c_shares \in {s \in Shares : s >= 0},
          c_price \in {c \in Costs : c >= 0} :
          IF Strip(c_symbol) = <<>>
          THEN /\ out' = [op |-> "add_trade",
                          asked |-> <<Asked(c_symbol, <<c_shares>>, c_price)>>,
                          rejected |-> TRUE, printed |-> "Enter a symbol"]
               /\ UNCHANGED <<positions, seq, deleted>>
          ELSE /\ SetDB(add_trade(DB, Strip(c_symbol), c_shares, c_price,
                                  TradeDate, ""))
               /\ out' = [op |-> "add_trade",
                          asked |-> <<Asked(c_symbol, <<c_shares>>, c_price)>>,
                          rejected |-> FALSE, printed |-> "Added"]

\* the sidebar's file uploader
ImportCsv(csv) ==
    /\ out = Idle
    /\ LET res == import_csv_to_db(DB, csv)
       IN  /\ SetDB(res.db)
           /\ out' = [op |-> "import",
                      asked |-> [i \in 1..Len(csv.rows) |->
                                   Asked(csv.rows[i].symbol, csv.rows[i].shares,
                                         csv.rows[i].cost_per_share)],
                      rejected |-> ~res.ok,
                      printed |-> IF res.ok THEN "Imported CSV to DB"
                                  ELSE "Import failed"]

ImportAnyCsv ==
    \E n \in 1..MaxCsvRows : n <= Room /\ \E csv \in Csvs(n) : ImportCsv(csv)

ImportCsvNoId ==
    \E n \in 1..MaxCsvRows : n <= Room /\ \E csv \in CsvsNoId(n) : ImportCsv(csv)

\* main(): args.cmd == 'view'
View ==
    /\ out = Idle
    /\ \E net \in [HeldSymbols(positions) -> CliOutcomes] :
          LET s == summary(UpperSymbols(list_positions(DB)), net)
          IN  out' = [op |-> "view", net |-> net, s |-> s,
                      printed |-> IF DOMAIN s = {} THEN "No positions."
                                  ELSE "totals and table"]
    /\ UNCHANGED <<positions, seq, deleted>>

\* one run of the dashboard's main page
MainPage ==
    /\ out = Idle
    /\ \E net \in [HeldSymbols(positions) -> DashOutcomes] :
          out' = [op |-> "dashboard", net |-> net,
                  page |-> main_page(UpperSymbols(list_positions(DB)), net)]
    /\ UNCHANGED <<positions, seq, deleted>>

\* the command is over
Exit ==
    /\ out # Idle
    /\ out' = Idle
    /\ UNCHANGED <<positions, seq, deleted>>

Init ==
    /\ positions = <<>>
    /\ seq = 0
    /\ deleted = {}
    /\ out = Idle

Next ==
    \/ AddPosition
    \/ DeletePosition
    \/ AddTrade
    \/ ImportAnyCsv
    \/ Exit

\* the storage commands
Spec == Init /\ [][Next]_vars

NextVal ==
    \/ AddPosition
    \/ ImportCsvNoId
    \/ View
    \/ MainPage
    \/ Exit

\* the valuation commands, on the tables that add and import build
SpecVal == Init /\ [][NextVal]_vars

---------------------------------------------------------------------------
(* Properties of the valuation, under SpecVal *)

ViewDone == out.op = "view" /\ DOMAIN out.s # {}
PageDone == out.op = "dashboard" /\ ~out.page.stopped

ZeroCostHasZeroPct(rows) ==
    \A i \in 1..Len(rows) : rows[i].cost_basis = F(0) => rows[i].pnl_pct = F(0)

\* C1: every position row and every per-symbol row whose cost_basis is 0 has
\* pnl_pct = 0, in the CLI's summary and on the dashboard, whatever the price.
C1_ZeroCostBasisGivesZeroPct ==
    /\ ViewDone => ZeroCostHasZeroPct(out.s.positions)
    /\ PageDone => ZeroCostHasZeroPct(out.page.df) /\ ZeroCostHasZeroPct(out.page.agg)

\* C2: on the dashboard the allocation_pct of the symbols sum to 1 when
\* total_value > 0, and each is 0 when total_value = 0.
C2_AllocationSumsToOne ==
    PageDone =>
        LET alloc == Column(out.page.agg, "allocation_pct")
            tv == out.page.total_value
        IN  /\ (tv.k = "num" /\ tv.n > 0) => FSum(alloc) = F(1)
            /\ tv = F(0) => \A g \in 1..Len(alloc) : alloc[g] = F(0)

HasZeroTotals(r) ==
    /\ {"positions", "total_value", "total_cost", "total_pnl"} \subseteq DOMAIN r
    /\ r.positions = <<>>
    /\ r.total_value = F(0)
    /\ r.total_cost = F(0)
    /\ r.total_pnl = F(0)

\* C3 as claimed: on an empty table the valuation returns an empty sequence of
\* rows with total_value = total_cost = total_pnl = 0.
C3_EmptyTableGivesZeroTotals ==
    (out.op = "view" /\ positions = <<>>) => HasZeroTotals(out.s)

\* C3 as amended: on an empty table summary returns the empty dict (no rows,
\* no totals) and view prints "No positions."; the dashboard shows its notice
\* and stops with no row and no total computed.  Neither raises.
C3_EmptyTableGivesNoResult ==
    /\ (out.op = "view" /\ positions = <<>>) =>
          DOMAIN out.s = {} /\ out.printed = "No positions."
    /\ (out.op = "dashboard" /\ positions = <<>>) =>
          out.page.stopped /\ DOMAIN out.page = {"stopped", "info"}

C3_Witness == out.op = "view" /\ positions = <<>> /\ out.printed = "No positions."

\* the lookup got no price: history() raised or was empty (and, on the
\* dashboard, the regularMarketPrice fallback raised or was None)
NoPrice(o) ==
    \/ o.hist = "raise"
    \/ o.hist = "empty" /\ o.info # "price"

\* the price the lookup got
Quoted(o) == IF o.hist = "close" THEN o.close ELSE o.reg

\* row v values position r with the price that lookup o stands for
ValuedWith(v, r, o) ==
    /\ v.cost_basis = F(r.shares * r.cost_per_share)
    /\ IF NoPrice(o)
       THEN /\ v.current_price = F(0)
            /\ v.current_value = F(0)
            /\ v.pnl_abs = F(-(r.shares * r.cost_per_share))
       ELSE /\ v.current_price = F(Quoted(o))
            /\ v.current_value = F(r.shares * Quoted(o))
            /\ v.pnl_abs = F(r.shares * Quoted(o) - r.shares * r.cost_per_share)

\* C4: a symbol whose lookup fails or returns nothing is priced 0, so its
\* positions have current_value = 0 and pnl_abs = -cost_basis; the other
\* symbols keep their own prices; every position gets its row.
C4_MissingPriceIsZero ==
    /\ ViewDone =>
          /\ Len(out.s.positions) = Len(positions)
          /\ \A i \in 1..Len(positions) :
                ValuedWith(out.s.positions[i], positions[i],
                           out.net[Upper(positions[i].symbol)])
    /\ PageDone =>
          /\ Len(out.page.df) = Len(positions)
          /\ \A i \in 1..Len(positions) :
                ValuedWith(out.page.df[i], positions[i],
                           out.net[Upper(positions[i].symbol)])

C4_Witness ==
    /\ ViewDone
    /\ Len(positions) = 2
    /\ \E i, j \in 1..2 :
          /\ out.net[Upper(positions[i].symbol)].hist = "raise"
          /\ out.net[Upper(positions[j].symbol)].hist = "close"
          /\ positions[i].shares * positions[i].cost_per_share # 0
          /\ out.s.positions[i].pnl_abs
                = F(-(positions[i].shares * positions[i].cost_per_share))
          /\ out.s.positions[j].current_value # F(0)

\* C5: the per-symbol rows sum to what the trades sum to, for current_value
\* and for cost_basis, so the dashboard's totals are the totals the CLI's
\* summary computes from the same positions and prices.
C5_AggregationKeepsTotals ==
    PageDone =>
        LET cli == summary_frame(UpperSymbols(positions), PriceFrame(out.page.prices))
        IN  /\ FSum(Column(out.page.agg, "current_value"))
                  = FSum(Column(out.page.df, "current_value"))
            /\ FSum(Column(out.page.agg, "cost_basis"))
                  = FSum(Column(out.page.df, "cost_basis"))
            /\ out.page.total_value = cli.total_value
            /\ out.page.total_cost = cli.total_cost
            /\ out.page.total_pnl = cli.total_pnl

C5_Witness ==
    /\ PageDone
    /\ Len(out.page.df) = 2
    /\ Len(out.page.agg) = 1
    /\ out.page.df[1].current_value # F(0)
    /\ out.page.df[2].current_value # F(0)
    /\ out.page.df[1].cost_basis # out.page.df[2].cost_basis
    /\ out.page.total_value # F(0)

\* C6: summary gives one row per position, in the order of the positions:
\* row i is position i (uppercased) with its own cost basis; no position is
\* dropped, doubled or moved, a failed lookup included.
C6_OneRowPerPositionInOrder ==
    ViewDone =>
        /\ Len(out.s.positions) = Len(positions)
        /\ \A i \in 1..Len(out.s.positions) :
              LET v == out.s.positions[i]
              IN  /\ i <= Len(positions)
                  /\ v.id = positions[i].id
                  /\ v.symbol = Upper(positions[i].symbol)
                  /\ v.shares = positions[i].shares
                  /\ v.cost_per_share = positions[i].cost_per_share
                  /\ v.cost_basis
                        = F(positions[i].shares * positions[i].cost_per_share)

C6_Witness ==
    /\ ViewDone
    /\ Len(positions) = 2
    /\ Len(out.s.positions) = 2
    /\ positions[1].symbol # positions[2].symbol
    /\ Upper(positions[1].symbol) = Upper(positions[2].symbol)
    /\ out.net[Upper(positions[1].symbol)].hist = "raise"

---------------------------------------------------------------------------
(* Properties of the table, under Spec *)

Inserting == out'.op \in {"add", "add_trade", "import"}

\* C7: the stored ids are pairwise distinct, a new row's id is greater than
\* every id assigned before (those stored and those deleted), and no deleted
\* id comes back.
C7_IdsIncreaseAndAreNeverReused ==
    [][/\ Cardinality(Ids(positions')) = Len(positions')
       /\ \A id \in Ids(positions') \ Ids(positions) :
             /\ id > MaxOf(Ids(positions) \cup deleted)
             /\ id \notin deleted]_vars

\* C8: every stored symbol is uppercase.
C8_StoredSymbolsUppercase ==
    \A i \in 1..Len(positions) : positions[i].symbol = Upper(positions[i].symbol)

\* a row no position can have: no share count, or a negative one
Malformed(a) == IsNull(a.shares) \/ a.shares[1] < 0

\* C9: an insert of a malformed row is rejected and leaves the table as it
\* was, on every insert path.
C9_MalformedInsertRejected ==
    [][(Inserting /\ \E i \in 1..Len(out'.asked) : Malformed(out'.asked[i]))
          => (out'.rejected /\ positions' = positions)]_vars

\* the rows of tbl other than the one with this id, in their order
Others(tbl, id) == SelectSeq(tbl, LAMBDA r : r.id # id)

\* C10: add_position and add_trade append one row and leave the stored rows
\* as they were, also when the symbol is already held; delete_position(id)
\* removes the row with that id and nothing else; with an id that is not
\* stored it changes nothing.
C10_RowsNeverMutated ==
    [][/\ (out'.op \in {"add", "add_trade"} /\ ~out'.rejected) =>
             /\ Len(positions') = Len(positions) + 1
             /\ SubSeq(positions', 1, Len(positions)) = positions
       /\ (out'.op = "add_trade" /\ out'.rejected) => positions' = positions
       /\ out'.op = "delete" =>
             /\ Others(positions', out'.id) = Others(positions, out'.id)
             /\ out'.id \notin Ids(positions')
             /\ out'.id \notin Ids(positions) => positions' = positions]_vars

C10_Witness ==
    /\ out.op = "delete"
    /\ out.id \in deleted
    /\ out.id \notin Ids(positions)
    /\ positions # <<>>
    /\ \E i \in 1..Len(positions) : positions[i].id > out.id

============================================================================
